---------------------------- MODULE Spec2Model ----------------------------
(***************************************************************************)
(* A model of extract.py: the keyword scan / transcript writer, the moment *)
(* merger and the parallel clip exporter.                                  *)
(*                                                                         *)
(* Time is counted in ticks of 2 ms (500 ticks per second).  Every value   *)
(* the script handles below is a whole number of ticks, a tick count never *)
(* lies half way between two hundredths of a second (so "%.2f" rounds it   *)
(* the same way whatever the binary representation), and the values that   *)
(* are halved by export_clip are even.                                     *)
(*                                                                         *)
(* A moment is the pair <<start, end>>, as the script's (start, end).      *)
(***************************************************************************)
EXTENDS Integers, Sequences, FiniteSets, TLC

VARIABLES
    pc,               \* position of the main thread in the script
    keywords,         \* CONFIG: keywords
    max_workers,      \* CONFIG: max_workers
    buffer_before,    \* CONFIG: buffer_before (ticks)
    buffer_after,     \* CONFIG: buffer_after (ticks)
    min_duration,     \* CONFIG: min_duration (ticks)
    merge_threshold,  \* CONFIG: merge_threshold (ticks)
    segments,         \* the segments the transcriber has yielded so far
    transcript,       \* content of the file output_transcript, a sequence of lines
    highlight_times,  \* highlight_times
    sorted_moments,   \* merge_overlapping_moments: sorted_moments
    merged,           \* merge_overlapping_moments: merged
    idx,              \* merge_overlapping_moments: position of the for loop in sorted_moments[1:]
    merged_times,     \* merged_times
    submitted,        \* number of executor.submit calls made (the next value of i)
    work_queue,       \* the executor's FIFO queue of work items <<i, start, end>>
    workers,          \* the executor's worker threads
    launched,         \* the ffmpeg invocations made so far, in launch order
    outcome           \* per clip index i: what export_clip printed for it

vars == <<pc, keywords, max_workers, buffer_before, buffer_after, min_duration,
          merge_threshold, segments, transcript, highlight_times, sorted_moments,
          merged, idx, merged_times, submitted, work_queue, workers, launched,
          outcome>>

configVars == <<keywords, max_workers, buffer_before, buffer_after, min_duration,
                merge_threshold>>
scanVars   == <<segments, transcript, highlight_times>>
mergeVars  == <<sorted_moments, merged, idx, merged_times>>
exportVars == <<submitted, work_queue, workers, launched, outcome>>

----------------------------------------------------------------------------
(* Bounds of the model. *)

\* Most segments the transcriber yields in one run.
MaxSegments == 2
\* Most raw moments handed to merge_overlapping_moments.
MaxMoments == 3
\* Most merged moments handed to the exporter.
MaxClips == 3
\* Largest max_workers tried.
MaxPool == 2

----------------------------------------------------------------------------
(* Units and small helpers. *)

Sec(n) == n * 500
HalfSec(n) == n * 250

Max(a, b) == IF b > a THEN b ELSE a          \* Python's max(a, b)

Range(s) == {s[k] : k \in 1..Len(s)}

----------------------------------------------------------------------------
(* CONFIG *)

DefaultKeywords ==
    <<"lol", "laugh", "anjing", "anying", "goblog", "kontol",
      "memek", "hahaha", "screamed", "goblok", "aduh", "ardi",
      "beni", "gendut", "botak">>

DefaultBufferBefore == HalfSec(3)     \* 1.5 s
DefaultBufferAfter == Sec(3)          \* 3.0 s
DefaultMinDuration == Sec(60)
DefaultMergeThreshold == Sec(10)

----------------------------------------------------------------------------
(* Strings: str.lower() and the substring test "kw in text". *)

UpperLetters == "ABCDEFGHIJKLMNOPQRSTUVWXYZ"
LowerLetters == "abcdefghijklmnopqrstuvwxyz"

CharAt(s, k) == SubSeq(s, k, k)

\* str.lower() on one character.
LowerChar(c) ==
    IF \E k \in 1..26 : CharAt(UpperLetters, k) = c
    THEN CharAt(LowerLetters, CHOOSE k \in 1..26 : CharAt(UpperLetters, k) = c)
    ELSE c

\* text.lower()
RECURSIVE Lower(_)
Lower(s) ==
    IF Len(s) = 0 THEN ""
    ELSE LowerChar(CharAt(s, 1)) \o Lower(SubSeq(s, 2, Len(s)))

\* sub in s
Contains(s, sub) ==
    \E off \in 0..(Len(s) - Len(sub)) : SubSeq(s, off + 1, off + Len(sub)) = sub

\* A plausible slip: the text is searched as it is, without lowering it.
MatchesCaseSensitive(text, kws) ==
    \E k \in 1..Len(kws) : Contains(text, kws[k])

\* any(kw in text.lower() for kw in keywords)
Matches(text, kws) ==
    \E k \in 1..Len(kws) : Contains(Lower(text), kws[k])

----------------------------------------------------------------------------
(* Save transcript + scan for keywords (extract.py lines 79-96). *)

\* "{x:.2f}": the hundredths of a second nearest to x ticks (5 ticks each).
Fmt2(t) == (t + 2) \div 5

\* f"[{start:.2f}s -> {end:.2f}s] {text}\n": the two numerals and the text.
TranscriptLine(seg) == <<Fmt2(seg.start), Fmt2(seg.end), seg.text>>

\* Segment times and texts the transcriber may yield.
SegmentTimes == {618, Sec(30)}
SegmentTexts == {"He LOL'd loudly", "aduhai", "l o l", "hello", "ADUH!", ""}
SegmentChoices ==
    {seg \in [start : SegmentTimes, end : SegmentTimes, text : SegmentTexts] :
        seg.start <= seg.end}

\* What the file at output_transcript may hold before the run.
PriorTranscripts == {<<>>, << <<0, 100, "stale">> >>}

KeywordChoices == {DefaultKeywords, <<"lol">>, <<"LOL", "Aduh">>, <<>>}

\* A plausible slip: the file is opened in append mode, "a".
OpenTranscriptAppend ==
    /\ pc = "open"
    /\ highlight_times' = <<>>
    /\ pc' = "scan"
    /\ UNCHANGED <<configVars, segments, transcript, mergeVars, exportVars>>

\* os.makedirs; highlight_times = []; open(output_transcript, "w") truncates.
OpenTranscript ==
    /\ pc = "open"
    /\ transcript' = <<>>
    /\ highlight_times' = <<>>
    /\ pc' = "scan"
    /\ UNCHANGED <<configVars, segments, mergeVars, exportVars>>

\* One iteration of "for i, segment in enumerate(segments)".
ScanSegment ==
    /\ pc = "scan"
    /\ Len(segments) < MaxSegments
    /\ \E seg \in SegmentChoices :
          /\ Len(segments) > 0 => segments[Len(segments)].start <= seg.start
          /\ segments' = Append(segments, seg)
          /\ transcript' = Append(transcript, TranscriptLine(seg))
          /\ highlight_times' =
                IF Matches(seg.text, keywords)
                THEN Append(highlight_times, <<seg.start, seg.end>>)
                ELSE highlight_times
    /\ pc' = "scan"
    /\ UNCHANGED <<configVars, mergeVars, exportVars>>

\* The segment generator is exhausted: the with block closes the file.
ScanEnd ==
    /\ pc = "scan"
    /\ pc' = "merge"
    /\ UNCHANGED <<configVars, scanVars, mergeVars, exportVars>>

----------------------------------------------------------------------------
(* merge_overlapping_moments (extract.py lines 100-121). *)

\* Where sorted() puts m in an already sorted list: after every element whose
\* key x[0] is not greater (the sort is stable).
RECURSIVE InsertByStart(_, _)
InsertByStart(s, m) ==
    IF Len(s) = 0 THEN <<m>>
    ELSE IF s[Len(s)][1] <= m[1] THEN Append(s, m)
    ELSE Append(InsertByStart(SubSeq(s, 1, Len(s) - 1), m), s[Len(s)])

\* A plausible slip: the moments are swept in the order given, unsorted.
Unsorted(moments) == moments

\* sorted(moments, key=lambda x: x[0])
RECURSIVE SortedByStart(_)
SortedByStart(moments) ==
    IF Len(moments) = 0 THEN <<>>
    ELSE InsertByStart(SortedByStart(SubSeq(moments, 1, Len(moments) - 1)),
                       moments[Len(moments)])

\* current_start <= last_end + threshold
WithinThreshold(current, last, threshold) == current[1] <= last[2] + threshold

\* A plausible slip: the end is overwritten by the absorbed moment's end.
AbsorbOverwrite(last, current) == <<last[1], current[2]>>

\* (last_start, max(last_end, current_end))
Absorb(last, current) == <<last[1], Max(last[2], current[2])>>

\* Raw moments and thresholds merge_overlapping_moments is tried on (seconds).
MomentChoices ==
    {<<Sec(0), Sec(2)>>, <<Sec(3), Sec(5)>>, <<Sec(20), Sec(22)>>, <<Sec(5), Sec(6)>>,
     <<Sec(1), Sec(2)>>, <<Sec(0), Sec(30)>>, <<Sec(4), Sec(3)>>}
ThresholdChoices == {0, Sec(10), -Sec(1)}

\* The call: "if not moments: return []", else sort and seed merged.
MergeStart ==
    /\ pc = "merge"
    /\ IF Len(highlight_times) = 0
       THEN /\ merged_times' = <<>>
            /\ pc' = "export"
            /\ UNCHANGED <<sorted_moments, merged, idx>>
       ELSE /\ sorted_moments' = SortedByStart(highlight_times)
            /\ merged' = <<sorted_moments'[1]>>
            /\ idx' = 2
            /\ pc' = "merge_loop"
            /\ UNCHANGED merged_times
    /\ UNCHANGED <<configVars, scanVars, exportVars>>

\* One iteration of "for current_start, current_end in sorted_moments[1:]".
MergeStep ==
    /\ pc = "merge_loop"
    /\ idx <= Len(sorted_moments)
    /\ LET current == sorted_moments[idx]
           last == merged[Len(merged)]
       IN  merged' =
              IF WithinThreshold(current, last, merge_threshold)
              THEN [merged EXCEPT ![Len(merged)] = Absorb(last, current)]
              ELSE Append(merged, current)
    /\ idx' = idx + 1
    /\ pc' = "merge_loop"
    /\ UNCHANGED <<configVars, scanVars, sorted_moments, merged_times, exportVars>>

\* "return merged", assigned to merged_times.
MergeReturn ==
    /\ pc = "merge_loop"
    /\ idx > Len(sorted_moments)
    /\ merged_times' = merged
    /\ pc' = "export"
    /\ UNCHANGED <<configVars, scanVars, sorted_moments, merged, idx, exportVars>>

----------------------------------------------------------------------------
(* export_clip (extract.py lines 126-165). *)

\* A plausible slip: the 0-based index is used as the file number.
ClipNumberZeroBased(i) == i

\* clip_name = f"clip_{i+1}.mkv": the number in the file name.
ClipNumber(i) == i + 1

\* moment_center = (start + end) / 2
MomentCenter(start, end) == (start + end) \div 2

\* The earlier edition's sum, which leaves buffer_before out.
ClipDurationNoBefore(start, end) == Max((end - start) + buffer_after, min_duration)

\* clip_duration = max((end - start) + buffer_before + buffer_after, min_duration)
ClipDuration(start, end) ==
    Max((end - start) + buffer_before + buffer_after, min_duration)

\* A plausible slip: the start is not floored at zero.
ClipStartUnclamped(start, end) ==
    MomentCenter(start, end) - (ClipDuration(start, end) \div 2)

\* clip_start = max(0, moment_center - (clip_duration / 2))
ClipStart(start, end) ==
    Max(0, MomentCenter(start, end) - (ClipDuration(start, end) \div 2))

\* The ffmpeg command line built for the call export_clip(i, start, end):
\* -ss, -t and the number in output_path (args keeps the call's arguments).
Command(i, start, end) ==
    [n |-> ClipNumber(i), ss |-> ClipStart(start, end), t |-> ClipDuration(start, end),
     args |-> <<i, start, end>>]

----------------------------------------------------------------------------
(* The export block (extract.py lines 168-179): a ThreadPoolExecutor with   *)
(* max_workers threads, one submit per merged moment, and the implicit      *)
(* shutdown(wait=True) when the with block is left.                         *)

WorkerIds == 1..MaxPool

NoItem == <<>>

NumThreads == Cardinality({w \in WorkerIds : workers[w].state # "none"})

\* A plausible slip: the pool grows with every submit, whatever max_workers is.
CanSpawnAlways == \E w \in WorkerIds : workers[w].state = "none"

\* The executor starts a new thread only while it has fewer than max_workers.
CanSpawn == NumThreads < max_workers

\* A plausible slip: shutdown(wait=False), the report does not wait.
AllJoinedNoWait == TRUE

\* shutdown(wait=True) has joined every worker thread.
AllJoined == \A w \in WorkerIds : workers[w].state \in {"none", "exited"}

\* outcome after export_clip(i, ...) printed its result line.
Printed(i, what) ==
    [k \in (DOMAIN outcome) \cup {i} |-> IF k = i THEN what ELSE outcome[k]]

\* What export_clip(i, ...) has printed: "exported", "error", or "none" yet.
Outcome(i) == IF i \in DOMAIN outcome THEN outcome[i] ELSE "none"

\* executor.submit(export_clip, i, start, end), for the next i of enumerate.
Submit ==
    /\ pc = "export"
    /\ submitted < Len(merged_times)
    /\ LET i == submitted
           m == merged_times[i + 1]
       IN  work_queue' = Append(work_queue, <<i, m[1], m[2]>>)
    /\ submitted' = submitted + 1
    /\ \E spawn \in BOOLEAN :
          /\ spawn => CanSpawn
          /\ ~spawn => (~CanSpawn \/ \E w \in WorkerIds : workers[w].state = "idle")
          /\ workers' =
                IF spawn
                THEN LET w == CHOOSE v \in WorkerIds :
                                  /\ workers[v].state = "none"
                                  /\ \A u \in WorkerIds : workers[u].state = "none" => v <= u
                     IN  [workers EXCEPT ![w] = [state |-> "idle", item |-> NoItem]]
                ELSE workers
    /\ pc' = "export"
    /\ UNCHANGED <<configVars, scanVars, mergeVars, launched, outcome>>

\* The for loop is over: the with block calls shutdown(wait=True).
Shutdown ==
    /\ pc = "export"
    /\ submitted = Len(merged_times)
    /\ pc' = "join"
    /\ UNCHANGED <<configVars, scanVars, mergeVars, exportVars>>

\* A worker thread takes the oldest work item and calls export_clip.
WorkerTake(w) ==
    /\ pc \in {"export", "join"}
    /\ workers[w].state = "idle"
    /\ Len(work_queue) > 0
    /\ workers' = [workers EXCEPT ![w] = [state |-> "running", item |-> Head(work_queue)]]
    /\ work_queue' = Tail(work_queue)
    /\ UNCHANGED <<pc, configVars, scanVars, mergeVars, submitted, launched, outcome>>

\* export_clip builds the command and subprocess.run starts ffmpeg.
StartEncoder(w) ==
    /\ pc \in {"export", "join"}
    /\ workers[w].state = "running"
    /\ LET it == workers[w].item
       IN  launched' = Append(launched, Command(it[1], it[2], it[3]))
    /\ workers' = [workers EXCEPT ![w].state = "encoding"]
    /\ UNCHANGED <<pc, configVars, scanVars, mergeVars, submitted, work_queue, outcome>>

\* A plausible slip: the failure is not contained and ends the process.
OnEncoderExitAbort(w, rc) ==
    /\ outcome' = Printed(workers[w].item[1], IF rc = 0 THEN "exported" ELSE "error")
    /\ workers' = [workers EXCEPT ![w] = [state |-> "idle", item |-> NoItem]]
    /\ pc' = IF rc = 0 THEN pc ELSE "aborted"

\* ffmpeg exits with rc: export_clip prints "Exported" (rc = 0) or catches
\* CalledProcessError and prints the error; the worker goes back to the queue.
OnEncoderExit(w, rc) ==
    /\ outcome' = Printed(workers[w].item[1], IF rc = 0 THEN "exported" ELSE "error")
    /\ workers' = [workers EXCEPT ![w] = [state |-> "idle", item |-> NoItem]]
    /\ pc' = pc

EncoderExit(w) ==
    /\ pc \in {"export", "join"}
    /\ workers[w].state = "encoding"
    /\ \E rc \in {0, 1} : OnEncoderExit(w, rc)
    /\ UNCHANGED <<configVars, scanVars, mergeVars, submitted, work_queue, launched>>

\* After shutdown an idle worker finds the queue empty and its thread ends.
WorkerExit(w) ==
    /\ pc = "join"
    /\ workers[w].state = "idle"
    /\ Len(work_queue) = 0
    /\ workers' = [workers EXCEPT ![w].state = "exited"]
    /\ UNCHANGED <<pc, configVars, scanVars, mergeVars, submitted, work_queue,
                   launched, outcome>>

\* The with block is left: print("Exported all clips in ...").
Report ==
    /\ pc = "join"
    /\ AllJoined
    /\ pc' = "done"
    /\ UNCHANGED <<configVars, scanVars, mergeVars, exportVars>>

----------------------------------------------------------------------------
(* Initial states and specifications. *)

SeqsUpTo(S, n) == UNION {[1..k -> S] : k \in 0..n}

NoWorkers == [w \in WorkerIds |-> [state |-> "none", item |-> NoItem]]

DefaultTiming ==
    /\ buffer_before = DefaultBufferBefore
    /\ buffer_after = DefaultBufferAfter
    /\ min_duration = DefaultMinDuration

MergeIdle ==
    /\ sorted_moments = <<>>
    /\ merged = <<>>
    /\ idx = 0
    /\ merged_times = <<>>

ExportIdle ==
    /\ submitted = 0
    /\ work_queue = <<>>
    /\ workers = NoWorkers
    /\ launched = <<>>
    /\ outcome = <<>>

\* The script starts: the transcriber is about to yield its segments.
Init ==
    /\ pc = "open"
    /\ keywords \in KeywordChoices
    /\ max_workers \in 1..MaxPool
    /\ DefaultTiming
    /\ merge_threshold = DefaultMergeThreshold
    /\ segments = <<>>
    /\ transcript \in PriorTranscripts
    /\ highlight_times = <<>>
    /\ MergeIdle
    /\ ExportIdle

\* merge_overlapping_moments is called on a list of moments and a threshold.
InitMerge ==
    /\ pc = "merge"
    /\ keywords = DefaultKeywords
    /\ max_workers = 1
    /\ DefaultTiming
    /\ merge_threshold \in ThresholdChoices
    /\ segments = <<>>
    /\ transcript = <<>>
    /\ highlight_times \in SeqsUpTo(MomentChoices, MaxMoments)
    /\ MergeIdle
    /\ ExportIdle

\* The k-th merged moment handed to the exporter (seconds): (10,12), (100,170),
\* then moments further on.
ExportMoment(k) ==
    IF k = 1 THEN <<Sec(10), Sec(12)>>
    ELSE IF k = 2 THEN <<Sec(100), Sec(170)>>
    ELSE <<Sec(100 * k), Sec(100 * k + k)>>

TimingChoices ==
    {<<DefaultBufferBefore, DefaultBufferAfter, DefaultMinDuration>>, <<0, 0, 0>>}

\* The export block starts on a list of merged moments.
InitExport ==
    /\ pc = "export"
    /\ keywords = DefaultKeywords
    /\ max_workers \in 1..MaxPool
    /\ \E tm \in TimingChoices :
          /\ buffer_before = tm[1]
          /\ buffer_after = tm[2]
          /\ min_duration = tm[3]
    /\ merge_threshold = DefaultMergeThreshold
    /\ segments = <<>>
    /\ transcript = <<>>
    /\ highlight_times = <<>>
    /\ sorted_moments = <<>>
    /\ merged = <<>>
    /\ idx = 0
    /\ merged_times \in {[k \in 1..n |-> ExportMoment(k)] : n \in 0..MaxClips}
    /\ ExportIdle

\* Moments and configuration values export_clip is tried on.
ClipTimes == {Sec(0), Sec(10), Sec(12), Sec(100), Sec(170)}
BufferBeforeChoices == {-Sec(100), 0, DefaultBufferBefore}
BufferAfterChoices == {0, DefaultBufferAfter}
MinDurationChoices == {-Sec(2), 0, DefaultMinDuration}

\* The export block starts on one moment, any configuration.
InitClip ==
    /\ pc = "export"
    /\ keywords = DefaultKeywords
    /\ max_workers = 1
    /\ buffer_before \in BufferBeforeChoices
    /\ buffer_after \in BufferAfterChoices
    /\ min_duration \in MinDurationChoices
    /\ merge_threshold = DefaultMergeThreshold
    /\ segments = <<>>
    /\ transcript = <<>>
    /\ highlight_times = <<>>
    /\ sorted_moments = <<>>
    /\ merged = <<>>
    /\ idx = 0
    /\ merged_times \in {<<m>> : m \in ClipTimes \X ClipTimes}
    /\ ExportIdle

NextScan == OpenTranscript \/ ScanSegment \/ ScanEnd

NextMerge == MergeStart \/ MergeStep \/ MergeReturn

NextExport ==
    \/ Submit
    \/ Shutdown
    \/ Report
    \/ \E w \in WorkerIds :
          WorkerTake(w) \/ StartEncoder(w) \/ EncoderExit(w) \/ WorkerExit(w)

Next == NextScan \/ NextMerge \/ NextExport

\* The whole script, from the transcript scan to the final report.
Spec == Init /\ [][Next]_vars

\* The scan alone.
SpecScan == Init /\ [][NextScan]_vars

\* merge_overlapping_moments alone.
SpecMerge == InitMerge /\ [][NextMerge]_vars

\* The export block alone.
SpecExport == InitExport /\ [][NextExport]_vars

\* export_clip on one moment.
SpecClip == InitClip /\ [][NextExport]_vars

\* The export block with threads that keep being scheduled and ffmpeg
\* processes that exit.
FairSpecExport == InitExport /\ [][NextExport]_vars /\ WF_vars(NextExport)

----------------------------------------------------------------------------
(* Properties of the merger. *)

\* out is moments sorted by start ascending, equal starts in their given order.
IsSortedByStart(out, moments) ==
    /\ Len(out) = Len(moments)
    /\ \E p \in Permutations(1..Len(moments)) :
          /\ \A k \in 1..Len(moments) : out[k] = moments[p[k]]
          /\ \A j, k \in 1..Len(moments) :
                j < k => \/ moments[p[j]][1] < moments[p[k]][1]
                         \/ (moments[p[j]][1] = moments[p[k]][1] /\ p[j] < p[k])

\* The sweep over an already sorted list s: the first moment starts the result,
\* each later one is absorbed into the last entry or appended.
RECURSIVE Sweep(_, _)
Sweep(s, threshold) ==
    IF Len(s) = 0 THEN <<>>
    ELSE IF Len(s) = 1 THEN <<s[1]>>
    ELSE LET r == Sweep(SubSeq(s, 1, Len(s) - 1), threshold)
             m == s[Len(s)]
             e == r[Len(r)]
         IN  IF m[1] <= e[2] + threshold
             THEN SubSeq(r, 1, Len(r) - 1) \o
                  << <<e[1], IF e[2] >= m[2] THEN e[2] ELSE m[2]>> >>
             ELSE r \o <<m>>

MergeReturned == pc = "export"

\* The result is the sweep over the moments sorted by start ascending.
MergeIsSortedSweep ==
    /\ \E s \in SeqsUpTo(Range(highlight_times), Len(highlight_times)) :
          /\ IsSortedByStart(s, highlight_times)
          /\ merged_times = Sweep(s, merge_threshold)
    /\ Len(highlight_times) = 0 => merged_times = <<>>

\* [(0,2),(3,5),(20,22)] with threshold 10 gives [(0,5),(20,22)].
MergeExampleThree ==
    (/\ highlight_times = << <<Sec(0), Sec(2)>>, <<Sec(3), Sec(5)>>, <<Sec(20), Sec(22)>> >>
     /\ merge_threshold = Sec(10))
    => merged_times = << <<Sec(0), Sec(5)>>, <<Sec(20), Sec(22)>> >>

\* C1 as stated: the sorted sweep, with [(5,6),(1,2)] at threshold 10 giving
\* [(1,2),(5,6)].
C1_Original ==
    MergeReturned =>
        /\ MergeIsSortedSweep
        /\ MergeExampleThree
        /\ (/\ highlight_times = << <<Sec(5), Sec(6)>>, <<Sec(1), Sec(2)>> >>
            /\ merge_threshold = Sec(10))
           => merged_times = << <<Sec(1), Sec(2)>>, <<Sec(5), Sec(6)>> >>

\* C1: merge_overlapping_moments returns the left-to-right sweep over the
\* moments sorted by start ascending (absorb when start <= last end +
\* threshold, the end becoming the larger end and the start kept; append
\* otherwise), the empty list for the empty list, and [(0,5),(20,22)] for
\* [(0,2),(3,5),(20,22)] with threshold 10.  Amended example: [(5,6),(1,2)]
\* gives [(1,6)] with threshold 10 (5 <= 2 + 10), and [(1,2),(5,6)] only with
\* a threshold below 3.
C1_MergeIsSortedSweep ==
    MergeReturned =>
        /\ MergeIsSortedSweep
        /\ MergeExampleThree
        /\ highlight_times = << <<Sec(5), Sec(6)>>, <<Sec(1), Sec(2)>> >>
           => merged_times = IF merge_threshold < Sec(3)
                             THEN << <<Sec(1), Sec(2)>>, <<Sec(5), Sec(6)>> >>
                             ELSE << <<Sec(1), Sec(6)>> >>

\* An unsorted input whose sorted sweep both absorbs and appends.
C1_Witness ==
    /\ MergeReturned
    /\ highlight_times = << <<Sec(20), Sec(22)>>, <<Sec(3), Sec(5)>>, <<Sec(0), Sec(2)>> >>
    /\ merge_threshold = Sec(10)
    /\ merged_times = << <<Sec(0), Sec(5)>>, <<Sec(20), Sec(22)>> >>

WellFormedMoments ==
    /\ \A k \in 1..Len(highlight_times) : highlight_times[k][1] <= highlight_times[k][2]
    /\ merge_threshold >= 0

\* C2: for moments with start <= end and a threshold >= 0, every input moment
\* lies inside the output entry it was absorbed into (the last entry that
\* starts at or before it): that entry's end is at least the moment's end, so
\* an entry's end is at least the largest end of its moments.
C2_MergeKeepsCoverage ==
    (MergeReturned /\ WellFormedMoments) =>
        \A k \in 1..Len(highlight_times) :
            \E j \in 1..Len(merged_times) :
                /\ merged_times[j][1] <= highlight_times[k][1]
                /\ j < Len(merged_times) => highlight_times[k][1] < merged_times[j + 1][1]
                /\ highlight_times[k][2] <= merged_times[j][2]

\* A moment fully contained in an earlier one has been absorbed.
C2_Witness ==
    /\ MergeReturned
    /\ WellFormedMoments
    /\ highlight_times = << <<Sec(3), Sec(5)>>, <<Sec(0), Sec(30)>>, <<Sec(20), Sec(22)>> >>
    /\ merged_times = << <<Sec(0), Sec(30)>> >>

----------------------------------------------------------------------------
(* Properties of the scan. *)

\* The lowercased text holds kw at some offset, character by character.
HoldsKeyword(text, kw) ==
    \E off \in 0..(Len(text) - Len(kw)) :
        \A j \in 1..Len(kw) : LowerChar(CharAt(text, off + j)) = CharAt(kw, j)

HoldsSomeKeyword(seg) == \E k \in 1..Len(keywords) : HoldsKeyword(seg.text, keywords[k])

\* The (start, end) pairs of the segments that hold a keyword, in segment order.
MatchingPairs ==
    LET hits == SelectSeq(segments, HoldsSomeKeyword)
    IN  [k \in 1..Len(hits) |-> <<hits[k].start, hits[k].end>>]

ScanDone == pc = "merge"

\* The two matches the specification gives as examples.
ExampleMatch(text) ==
    \/ (text = "He LOL'd loudly" /\ \E j \in 1..Len(keywords) : keywords[j] = "lol")
    \/ (text = "aduhai" /\ \E j \in 1..Len(keywords) : keywords[j] = "aduh")

\* C7: once the scanner has consumed the segments, highlight_times is exactly
\* the sequence of (start, end) pairs of the segments whose lowercased text
\* contains a configured keyword as a contiguous substring, one pair per
\* matching segment, in segment order; "He LOL'd loudly" matches "lol" and
\* "aduhai" matches "aduh".
C7_HighlightsAreMatchingSegments ==
    ScanDone =>
        /\ highlight_times = MatchingPairs
        /\ \A k \in 1..Len(segments) :
              ExampleMatch(segments[k].text) =>
                  \E h \in 1..Len(highlight_times) :
                      highlight_times[h] = <<segments[k].start, segments[k].end>>

\* A segment that matches only once lowered, after one that does not match.
C7_Witness ==
    /\ ScanDone
    /\ keywords = DefaultKeywords
    /\ Len(segments) = 2
    /\ segments[1].text = "l o l"
    /\ segments[1].start = 618
    /\ segments[2].text = "He LOL'd loudly"
    /\ segments[2].start = 618
    /\ highlight_times = << <<618, Sec(30)>> >>

\* h hundredths of a second is the two-decimal numeral nearest to t ticks.
IsNearestHundredth(h, t) == 5 * h - 2 <= t /\ t <= 5 * h + 2

\* C8: the transcript file holds exactly one line per segment, in segment
\* order, each with that segment's start and end (to two decimals) and its
\* text, and nothing of what the file held before.
C8_TranscriptMirrorsSegments ==
    pc \in {"scan", "merge"} =>
        /\ Len(transcript) = Len(segments)
        /\ \A k \in 1..Len(segments) :
              /\ IsNearestHundredth(transcript[k][1], segments[k].start)
              /\ IsNearestHundredth(transcript[k][2], segments[k].end)
              /\ transcript[k][3] = segments[k].text

\* Two different segments have been written.
C8_Witness ==
    /\ ScanDone
    /\ Len(segments) = 2
    /\ segments[1].start = 618
    /\ segments[2].start = Sec(30)
    /\ segments[1].text # segments[2].text
    /\ transcript[1][1] = 124
    /\ transcript[2][1] = 3000

----------------------------------------------------------------------------
(* Properties of export_clip. *)

\* C3: the start offset handed to ffmpeg is never negative and the duration
\* handed to ffmpeg is never less than min_duration, for every moment and
\* every configuration value.
C3_StartAndDurationFloors ==
    \A k \in 1..Len(launched) :
        /\ launched[k].ss >= 0
        /\ launched[k].t >= min_duration

\* The moment (10,12) was exported with the default configuration: its window
\* would start before the video and its span is under the minimum.
C3_Witness ==
    /\ DefaultTiming
    /\ Len(launched) = 1
    /\ launched[1].args = <<0, Sec(10), Sec(12)>>
    /\ MomentCenter(Sec(10), Sec(12)) < launched[1].t \div 2
    /\ launched[1].ss = 0

\* C4: duration = max((end - start) + buffer_before + buffer_after,
\* min_duration) and start = max(0, (start + end)/2 - duration/2), nothing
\* capping them at the end of the video; with the default buffers and minimum
\* (10,12) gives duration 60 and start 0, (100,170) gives 74.5 and 97.75.
C4_ClipWindow ==
    \A k \in 1..Len(launched) :
        LET r == launched[k]
            start == r.args[2]
            end == r.args[3]
            span == (end - start) + buffer_before + buffer_after
        IN  /\ r.t = IF span >= min_duration THEN span ELSE min_duration
            /\ 2 * r.ss = IF start + end > r.t THEN (start + end) - r.t ELSE 0
            /\ (DefaultTiming /\ start = Sec(10) /\ end = Sec(12))
               => (r.t = Sec(60) /\ r.ss = 0)
            /\ (DefaultTiming /\ start = Sec(100) /\ end = Sec(170))
               => (r.t = 37250 /\ r.ss = 48875)

\* The moment (100,170) was exported with the default configuration.
C4_Witness ==
    /\ DefaultTiming
    /\ Len(launched) = 1
    /\ launched[1].args = <<0, Sec(100), Sec(170)>>
    /\ launched[1].t = 37250
    /\ launched[1].ss = 48875

\* The values export_clip halves are even numbers of ticks.
HalvesExact ==
    \A k \in 1..Len(launched) :
        /\ (launched[k].args[2] + launched[k].args[3]) % 2 = 0
        /\ launched[k].t % 2 = 0

----------------------------------------------------------------------------
(* Properties of the export block. *)

ClipIndexes == 0..(Len(merged_times) - 1)

Encoding == {w \in WorkerIds : workers[w].state = "encoding"}

\* The clip indexes a worker has taken from the queue so far.
Started ==
    {i \in ClipIndexes :
        \/ Outcome(i) # "none"
        \/ \E w \in WorkerIds : workers[w].item # NoItem /\ workers[w].item[1] = i}

\* C5: the moment at 0-based position i of merged_times is exported to the
\* file numbered i + 1, whatever the interleaving: no two exports of a run get
\* the same number, and once the run is done the files 1..n were written for
\* the moments 1..n in list order.
C5_NumberingFollowsListOrder ==
    /\ \A k \in 1..Len(launched) :
          LET r == launched[k]
          IN  /\ r.n = r.args[1] + 1
              /\ r.n \in 1..Len(merged_times)
              /\ merged_times[r.n] = <<r.args[2], r.args[3]>>
              /\ \A j \in 1..Len(launched) : launched[j].n = r.n => j = k
    /\ pc = "done" =>
          {<<launched[k].n, launched[k].args[2], launched[k].args[3]>> :
              k \in 1..Len(launched)}
          = {<<p, merged_times[p][1], merged_times[p][2]>> : p \in 1..Len(merged_times)}

\* The second clip was launched first and has finished while the first
\* clip's ffmpeg is still running.
C5_Witness ==
    /\ Len(launched) >= 2
    /\ launched[1].n = 2
    /\ Outcome(1) # "none"
    /\ Outcome(0) = "none"
    /\ \E w \in Encoding : workers[w].item[1] = 0

\* At most max_workers ffmpeg processes run at the same time.
BoundedPool == Cardinality(Encoding) <= max_workers

\* C9 as stated: the pool is bounded and the exports' ffmpeg processes are
\* started in the order of merged_times.
C9_Original ==
    /\ BoundedPool
    /\ \A j, k \in 1..Len(launched) : j < k => launched[j].n < launched[k].n

\* C9: at most max_workers ffmpeg processes run at the same time.  Amended
\* order: the exports are submitted and taken up by the workers in the order
\* of merged_times (whatever still waits in the queue comes later in the list
\* than everything a worker has taken); the ffmpeg processes of exports taken
\* by different workers may be launched in either order.
C9_BoundedPoolInListOrder ==
    /\ BoundedPool
    /\ \A q \in 1..Len(work_queue) :
          /\ \A i \in Started : i < work_queue[q][1]
          /\ \A p \in 1..Len(work_queue) : p < q => work_queue[p][1] < work_queue[q][1]

\* The pool is full and a submitted export waits in the queue.
C9_Witness ==
    /\ max_workers >= 2
    /\ Cardinality(Encoding) = max_workers
    /\ Len(work_queue) > 0

AllFinished ==
    /\ \A i \in ClipIndexes : Outcome(i) \in {"exported", "error"}
    /\ Len(work_queue) = 0
    /\ \A w \in WorkerIds : workers[w].state \notin {"running", "encoding"}

\* C6: a failing export (non-zero exit of ffmpeg) neither stops the other
\* exports nor the run: whichever exports fail, the run goes on to a final
\* report at which every submitted export has completed.
C6_FailureIsContained ==
    (\E i \in ClipIndexes : Outcome(i) = "error")
        ~> (pc = "done" /\ AllFinished)

\* The run is done with a failed export before and after a successful one.
C6_Witness ==
    /\ pc = "done"
    /\ Len(merged_times) = 3
    /\ Outcome(0) = "error"
    /\ Outcome(1) = "exported"
    /\ Outcome(2) = "error"

\* C10: the final report is printed only after every submitted export has
\* finished, succeeded or failed; and, the ffmpeg processes exiting, every
\* submitted export is eventually run and the report eventually printed.
C10_ReportWaitsForAll ==
    /\ [](pc = "done" => AllFinished)
    /\ <>(pc = "done" /\ AllFinished)

\* The report is printed after more exports than workers, not all successful.
C10_Witness ==
    /\ pc = "done"
    /\ Len(merged_times) > max_workers
    /\ \E i \in ClipIndexes : Outcome(i) = "error"
    /\ \E i \in ClipIndexes : Outcome(i) = "exported"

====
